---- MODULE Spec2Model ----
(***************************************************************************)
(* A model of the pgx connection (conn.go): Connect, Close, Prepare,       *)
(* Deallocate, Exec, Query, the QueryResult cursor (NextRow, Close),       *)
(* WaitForNotification and the transaction helper, together with the       *)
(* backend that answers it.                                                *)
(*                                                                         *)
(* The protocol channel is the sequence `wire` of messages the backend has *)
(* sent and the driver has not read yet.  Every driver operation is one    *)
(* action: it sends its request (the backend answers at once by appending  *)
(* its whole response to `wire`) and then runs its receive loop over       *)
(* `wire` exactly as the code does.  A transport failure on the read side  *)
(* is the pseudo message IOERR: the read that reaches it fails.            *)
(***************************************************************************)
EXTENDS Integers, Sequences, FiniteSets, TLC

\* ---------------------------------------------------------------- bounds
MaxRows  == 1   \* data rows in one result set
MaxStale == 0   \* a request is issued only while at most this many messages are unread
MaxNotif == 1   \* notifications the backend emits over the whole run
MaxArgs  == 1   \* arguments passed to Exec / Query, parameters of a statement
MaxAfterDeath == 1  \* operations attempted on a connection after it has died
MaxCols  == 1   \* parameters, and result columns, of a described statement

\* ---------------------------------------------------------------- values
Names      == {"s1"}                      \* prepared statement names
TxStatuses == {"I", "T", "E"}             \* idle, in transaction, failed transaction

QuoteIdentifier(name) == "\"" \o name \o "\""
DeallocateSql(name)   == "deallocate " \o QuoteIdentifier(name)

\* A message: tag t, a number n (field count, parameter count, auth method,
\* error id, notification id) and a string s (status byte, severity).
Msg(t, n, s) == [t |-> t, n |-> n, s |-> s]
readyForQuery(s)        == Msg("Z", 0, s)
rowDescription(n)       == Msg("T", n, "")
parameterDescription(n) == Msg("t", n, "")
dataRow(n)              == Msg("D", n, "")
errorResponse(sev, id)  == Msg("E", id, sev)
notificationResponse(i) == Msg("A", i, "")
authenticationX(method) == Msg("R", method, "")
commandComplete == Msg("C", 0, "")
bindComplete    == Msg("2", 0, "")
parseComplete   == Msg("1", 0, "")
noData          == Msg("n", 0, "")
noticeResponse  == Msg("N", 0, "")
parameterStatus == Msg("S", 0, "")
backendKeyData  == Msg("K", 0, "")
otherTag        == Msg("H", 0, "")   \* a tag no receive loop names (copy-out, empty-query, ...)
IOERR           == Msg("!", 0, "")   \* not a message: the transport fails at this read
NoMsg           == Msg("", 0, "")

\* An error value: kind k, detail s, number n.
Err(k, s, n) == [k |-> k, s |-> s, n |-> n]
NoErr                    == Err("nil", "", 0)
DeadConnError            == Err("DeadConnError", "", 0)
NotificationTimeoutError == Err("NotificationTimeoutError", "", 0)
IoErr(what)              == Err("io", what, 0)           \* a transport error
PgError(sev, id)         == Err("PgError", sev, id)      \* a backend error-response
UnknownMsgErr(t)         == Err("unknown", "", 0)        \* "Received unknown message type: t"
ProtocolError            == Err("ProtocolError", "fieldcount", 0)
UsageErr                 == Err("usage", "", 0)          \* wrong argument count, no encoder
ClosedErr                == Err("Closed", "", 0)         \* errors.New("Closed")
AuthErr                  == Err("auth", "", 0)           \* unknown authentication message
TlsErr                   == Err("tls", "", 0)            \* "Could not use TLS"
ScanCountErr             == Err("usage", "scan", 0)      \* "Scan received wrong number of arguments"

IsIo(e) == e.k = "io"

VARIABLES
  handle,              \* the caller holds a *Conn (Connect returned c # nil)
  connected,           \* Connect has run
  alive,               \* Conn.alive
  everAlive,           \* history: alive has been true
  causeOfDeath,        \* Conn.causeOfDeath
  connOpen,            \* Conn.conn is an open transport
  TxStatus,            \* Conn.TxStatus
  preparedStatements,  \* Conn.preparedStatements: name -> [np, nf]
  notifications,       \* Conn.notifications (ids, oldest first)
  deadline,            \* a read deadline is armed on the transport
  qr,                  \* Conn.qr, the one QueryResult every handle points to
  viaPool,             \* the caller obtains its cursors through a ConnPool
  tx,                  \* Conn.transaction: "none", or "body" while f is running
  listening,           \* the session listens on a channel that is in use
  pstmt,               \* a PreparedStatement as Prepare records it and Bind uses it
  wire,                \* messages sent by the backend, not yet read
  srvStmts,            \* backend: names of the statements it holds
  srvTx,               \* backend: status byte of the last ready-for-query it sent
  srvNotif,            \* backend: notifications emitted so far
  afterDeath,          \* history: operations attempted since the connection died
  rx,                  \* history: what the last operation read (see NoReads)
  ret                  \* what the last operation returned

vars == <<handle, connected, alive, everAlive, causeOfDeath, connOpen, TxStatus,
          preparedStatements, notifications, deadline, qr, viaPool, tx, listening,
          pstmt, wire,
          srvStmts, srvTx, srvNotif, afterDeath, rx, ret>>

\* The zero QueryResult and the one Query installs.  pool: QueryResult.pool
\* is not nil; attached and releases are history: a pool was attached to this
\* cursor, and how often the cursor has called the pool's Release.
NoCursor  == [active |-> FALSE, nf |-> 0, closed |-> FALSE, err |-> NoErr,
              pool |-> FALSE, attached |-> FALSE, releases |-> 0]
NewCursor == [NoCursor EXCEPT !.active = TRUE]

\* What an operation returned: its error, NextRow's boolean (val), whether it
\* returned on reading ready-for-query (rfq), the path its request took, the
\* notification it returned (n), and alive as the operation found it.  For
\* Conn.transaction val is committed, sql the last statement it issued and f
\* what the body returned.  wrote: Query or Exec reached the write of its
\* request to the transport.
Ret(op) == [op |-> op, sql |-> "", err |-> NoErr, val |-> FALSE, rfq |-> FALSE,
            path |-> "", preAlive |-> alive, n |-> 0, f |-> FALSE,
            wrote |-> FALSE]

\* What an operation has read: anything at all, a ready-for-query (z), a failed
\* read (io), the first non-FATAL error-response (e), the first error the
\* context-free handler returned (first), whether rxMsg was entered with a
\* read deadline armed (armed), and whether Conn.Close wrote, or tried to
\* write, a terminate message (term).
NoReads == [any |-> FALSE, z |-> FALSE, io |-> FALSE, e |-> NoErr, first |-> NoErr,
            armed |-> FALSE, term |-> FALSE]

\* The connection fields a receive loop reads and writes, as one record.
Cn == [alive |-> alive, causeOfDeath |-> causeOfDeath, connOpen |-> connOpen,
       TxStatus |-> TxStatus, notifications |-> notifications, wire |-> wire,
       log |-> NoReads]

CommitConn(c) ==
  /\ alive' = c.alive
  /\ causeOfDeath' = c.causeOfDeath
  /\ connOpen' = c.connOpen
  /\ TxStatus' = c.TxStatus
  /\ notifications' = c.notifications
  /\ wire' = c.wire
  /\ rx' = c.log

Commit(c) == CommitConn(c) /\ everAlive' = (everAlive \/ c.alive)

ConnUnchanged ==
  /\ rx' = NoReads
  /\ UNCHANGED <<alive, everAlive, causeOfDeath, connOpen, TxStatus, notifications, wire>>

\* ------------------------------------------------------------ primitives

\* Conn.die: the transport is closed, so nothing in flight can be read any more.
die(c, err) == [c EXCEPT !.alive = FALSE, !.causeOfDeath = err,
                         !.connOpen = FALSE, !.wire = <<>>]

\* Conn.rxMsg.  blocked: nothing has arrived, the read does not return.
rxMsg(c) ==
  IF ~c.alive THEN [c |-> c, m |-> NoMsg, err |-> DeadConnError, blocked |-> FALSE]
  ELSE IF c.wire = <<>> THEN [c |-> c, m |-> NoMsg, err |-> NoErr, blocked |-> TRUE]
  ELSE IF Head(c.wire) = IOERR
    THEN [c |-> die([c EXCEPT !.log.any = TRUE, !.log.io = TRUE], IoErr("read")),
          m |-> NoMsg, err |-> IoErr("read"), blocked |-> FALSE]
  ELSE [c |-> [c EXCEPT !.wire = Tail(@), !.log.any = TRUE,
                        !.log.z = @ \/ Head(c.wire).t = "Z"],
        m |-> Head(c.wire), err |-> NoErr, blocked |-> FALSE]

rxReadyForQuery(c, m) == [c EXCEPT !.TxStatus = m.s]

\* A handler that reads the notification and forgets it.
rxNotificationDropped(c, m) == c

rxNotificationResponse(c, m) == [c EXCEPT !.notifications = Append(@, m.n)]

\* A handler that kills the connection on every error-response.
rxErrorResponseAlwaysDies(c, m) ==
  [c |-> die([c EXCEPT !.log.e = IF @ = NoErr /\ m.s # "FATAL"
                                   THEN PgError(m.s, m.n) ELSE @],
             PgError(m.s, m.n)),
   err |-> PgError(m.s, m.n)]

rxErrorResponse(c, m) ==
  [c |-> IF m.s = "FATAL" THEN die(c, PgError(m.s, m.n))
         ELSE [c EXCEPT !.log.e = IF @ = NoErr THEN PgError(m.s, m.n) ELSE @],
   err |-> PgError(m.s, m.n)]

ContextFree(c, m) ==
  CASE m.t = "S" -> [c |-> c, err |-> NoErr]
    [] m.t = "E" -> rxErrorResponse(c, m)
    [] m.t = "N" -> [c |-> c, err |-> NoErr]
    [] m.t = "A" -> [c |-> rxNotificationResponse(c, m), err |-> NoErr]
    [] OTHER     -> [c |-> c, err |-> UnknownMsgErr(m.t)]

processContextFreeMsg(c, m) ==
  LET p == ContextFree(c, m)
  IN  [p EXCEPT !.c.log.first = IF @ = NoErr THEN p.err ELSE @]

\* The transport has failed: the failure is what the next read meets last.
IsBroken(w) == w # <<>> /\ w[Len(w)] = IOERR

\* c.conn.Write: fails on a closed transport and on one that has failed
\* before, and may fail on an open one.
WriteOutcomes == IF connOpen /\ ~IsBroken(wire) THEN BOOLEAN ELSE {FALSE}
WriteErr == IF connOpen THEN IoErr("write") ELSE IoErr("closed")

\* ---------------------------------------------------------------- backend

Rows(n, k) == [i \in 1..k |-> dataRow(n)]

HasTag(b, t) == \E i \in 1..Len(b) : b[i].t = t

\* Status byte of the last ready-for-query in msgs, or old when there is none.
LastStatus(msgs, old) ==
  IF HasTag(msgs, "Z")
    THEN msgs[CHOOSE i \in 1..Len(msgs) :
                msgs[i].t = "Z" /\ \A j \in (i+1)..Len(msgs) : msgs[j].t # "Z"].s
    ELSE old

\* Notifications the backend emits over the whole run; on a channel in use
\* they also arrive in the middle of a response.
NotifCap == IF listening THEN MaxNotif + 1 ELSE MaxNotif

\* What the backend may send for a simple query that is not a deallocate.
SimpleBodies ==
  {<<commandComplete>>,
   <<errorResponse("ERROR", 1)>>,
   <<otherTag, errorResponse("ERROR", 1)>>,
   <<rowDescription(1), noticeResponse, dataRow(1), commandComplete>>,
   <<rowDescription(1), dataRow(1), errorResponse("ERROR", 1)>>,
   <<rowDescription(1), dataRow(2), commandComplete>>}
  \cup {<<rowDescription(1)>> \o Rows(1, k) \o <<commandComplete>> : k \in 0..MaxRows}
  \cup (IF srvNotif < NotifCap
          THEN {<<commandComplete, notificationResponse(srvNotif + 1)>>} ELSE {})
  \cup (IF listening /\ srvNotif < NotifCap
          THEN {<<rowDescription(1), notificationResponse(srvNotif + 1), dataRow(1),
                  commandComplete>>,
                <<notificationResponse(srvNotif + 1), rowDescription(1),
                  commandComplete>>}
          ELSE {})

\* What it may send for bind/execute/sync of a statement it holds.
PreparedBodies ==
  {<<bindComplete, commandComplete>>,
   <<bindComplete, dataRow(1), errorResponse("ERROR", 1)>>,
   <<errorResponse("ERROR", 1)>>}
  \cup {<<bindComplete>> \o Rows(1, k) \o <<commandComplete>> : k \in 1..MaxRows}

\* What it may send for parse/describe/sync.
ParseBodies ==
  {<<parseComplete, parameterDescription(MaxArgs), rowDescription(1)>>,
   <<parseComplete, parameterDescription(0), noData>>}
  \cup (IF listening /\ srvNotif < NotifCap
          THEN {<<parseComplete, notificationResponse(srvNotif + 1),
                  parameterDescription(0), noData>>}
          ELSE {})

WithStmts(bodies, st) == {[b |-> b, st |-> st] : b \in bodies}

\* The status a ready-for-query may carry after body b: a failed statement
\* leaves no transaction intact, a successful one no failed transaction.
StatusAfter(b) == IF HasTag(b, "E") THEN TxStatuses \ {"T"} ELSE TxStatuses \ {"E"}

\* The backend's answers to one request: a body followed by ready-for-query,
\* or by a transport failure instead, or nothing but a transport failure, or
\* a FATAL error after which the backend hangs up.
Answers(BS) ==
  LET notif(b) == IF HasTag(b, "A") THEN srvNotif + 1 ELSE srvNotif
  IN  UNION {{[msgs |-> x.b \o <<readyForQuery(s)>>, stmts |-> x.st, notif |-> notif(x.b)] :
                s \in StatusAfter(x.b)} : x \in BS}
      \cup {[msgs |-> x.b \o <<IOERR>>, stmts |-> x.st, notif |-> notif(x.b)] : x \in BS}
      \cup {[msgs |-> <<IOERR>>, stmts |-> srvStmts, notif |-> srvNotif],
            [msgs |-> <<errorResponse("FATAL", 9), IOERR>>, stmts |-> srvStmts,
             notif |-> srvNotif]}

IsDeallocate(sql) == \E n \in Names : sql = DeallocateSql(n)
DeallocatedName(sql) == CHOOSE n \in Names : sql = DeallocateSql(n)

AnswersToSimple(sql) ==
  IF IsDeallocate(sql)
    THEN Answers(WithStmts({<<errorResponse("ERROR", 1)>>}, srvStmts)
                 \cup (IF DeallocatedName(sql) \in srvStmts
                         THEN WithStmts({<<commandComplete>>},
                                        srvStmts \ {DeallocatedName(sql)})
                         ELSE {}))
    ELSE Answers(WithStmts(SimpleBodies, srvStmts))

AnswersToPrepared(name) ==
  IF name \in srvStmts
    THEN Answers(WithStmts(PreparedBodies, srvStmts))
    ELSE Answers(WithStmts({<<errorResponse("ERROR", 1)>>}, srvStmts))

AnswersToParse(name) ==
  Answers(WithStmts({<<errorResponse("ERROR", 1)>>}, srvStmts)
          \cup (IF name \in srvStmts THEN {}
                ELSE WithStmts(ParseBodies, srvStmts \cup {name})))

AnswersTo(path, sql) ==
  IF path = "prepared" THEN AnswersToPrepared(sql) ELSE AnswersToSimple(sql)

\* The response reaches the channel unless the transport has already failed.
Deliver(w, msgs) == IF IsBroken(w) THEN w ELSE w \o msgs

\* A failed write on an open transport: the channel is broken, reads fail
\* once what has already arrived is consumed.
Broken(w) == Deliver(w, <<IOERR>>)

\* The backend's session ends with the transport: its statements are gone.
Backend(a) ==
  /\ srvStmts' = IF connOpen' THEN a.stmts ELSE {}
  /\ srvNotif' = a.notif
  /\ srvTx' = IF connOpen' THEN LastStatus(a.msgs, srvTx) ELSE ""

BackendIdle == Backend([stmts |-> srvStmts, notif |-> srvNotif, msgs |-> <<>>])

\* Messages in flight, the failure marker not counted.
Unread(w) == Cardinality({i \in 1..Len(w) : w[i] # IOERR})

\* The caller may start an operation on the connection.
CanCall ==
  /\ handle
  /\ ~alive => afterDeath < MaxAfterDeath
  /\ afterDeath' = IF alive THEN 0 ELSE afterDeath + 1

\* The caller may start an operation that sends a request; the pool hands a
\* connection to nobody else while a cursor has it borrowed.
CanSend == CanCall /\ Unread(wire) <= MaxStale /\ ~qr.pool


\* ------------------------------------------------------------- sending

\* Conn.sendSimpleQuery: SanitizeSql may reject the arguments; then one write.
\* wrote: the write was reached.
sendSimpleQuery(nargs, encOk, wok) ==
  IF nargs > 0 /\ ~encOk THEN [err |-> UsageErr, path |-> "simple", wrote |-> FALSE]
  ELSE IF ~wok THEN [err |-> WriteErr, path |-> "simple", wrote |-> TRUE]
  ELSE [err |-> NoErr, path |-> "simple", wrote |-> TRUE]

\* Conn.sendPreparedQuery: argument count, encoding into a buffer, then one
\* write of the buffer.
sendPreparedQuery(ps, nargs, encOk, wok) ==
  IF ps.np # nargs THEN [err |-> UsageErr, path |-> "prepared", wrote |-> FALSE]
  ELSE IF nargs > 0 /\ ~encOk THEN [err |-> UsageErr, path |-> "prepared", wrote |-> FALSE]
  ELSE IF ~wok THEN [err |-> WriteErr, path |-> "prepared", wrote |-> TRUE]
  ELSE [err |-> NoErr, path |-> "prepared", wrote |-> TRUE]

\* Conn.sendQuery
sendQuery(stmts, sql, nargs, encOk, wok) ==
  IF sql \in DOMAIN stmts
    THEN sendPreparedQuery(stmts[sql], nargs, encOk, wok)
    ELSE sendSimpleQuery(nargs, encOk, wok)

\* What sending sql may return, over the arguments the caller may pass and
\* the outcomes of the write.
SendResults(stmts, sql) ==
  {sendQuery(stmts, sql, nargs, encOk, wok) :
     nargs \in 0..MaxArgs, encOk \in BOOLEAN, wok \in WriteOutcomes}

\* The connection after a send that returned err.
AfterFailedSend(c, err) ==
  IF IsIo(err) /\ c.connOpen THEN [c EXCEPT !.wire = Broken(@)] ELSE c

\* ---------------------------------------------------------------- Exec

LoopStart(c) == [c |-> c, softErr |-> NoErr, done |-> FALSE, blocked |-> FALSE,
                 err |-> NoErr, rfq |-> FALSE]

\* A receive loop that returns the error-response as soon as it has read it.
ExecStepStopAtError(st) ==
  LET r == rxMsg(st.c) IN
  IF r.blocked THEN [st EXCEPT !.done = TRUE, !.blocked = TRUE]
  ELSE IF r.err # NoErr THEN [st EXCEPT !.c = r.c, !.done = TRUE, !.err = r.err]
  ELSE IF r.m.t = "Z"
    THEN [st EXCEPT !.c = rxReadyForQuery(r.c, r.m), !.done = TRUE,
                    !.err = st.softErr, !.rfq = TRUE]
  ELSE IF r.m.t \in {"T", "D", "2", "C"} THEN [st EXCEPT !.c = r.c]
  ELSE LET p == processContextFreeMsg(r.c, r.m)
       IN  IF p.err # NoErr THEN [st EXCEPT !.c = p.c, !.done = TRUE, !.err = p.err]
           ELSE [st EXCEPT !.c = p.c]

\* One turn of Exec's receive loop.
ExecStep(st) ==
  LET r == rxMsg(st.c) IN
  IF r.blocked THEN [st EXCEPT !.done = TRUE, !.blocked = TRUE]
  ELSE IF r.err # NoErr THEN [st EXCEPT !.c = r.c, !.done = TRUE, !.err = r.err]
  ELSE IF r.m.t = "Z"
    THEN [st EXCEPT !.c = rxReadyForQuery(r.c, r.m), !.done = TRUE,
                    !.err = st.softErr, !.rfq = TRUE]
  ELSE IF r.m.t \in {"T", "D", "2", "C"} THEN [st EXCEPT !.c = r.c]
  ELSE LET p == processContextFreeMsg(r.c, r.m)
       IN  [st EXCEPT !.c = p.c,
                      !.softErr = IF p.err # NoErr /\ @ = NoErr THEN p.err ELSE @]

RECURSIVE ExecLoop(_)
ExecLoop(st) == IF st.done THEN st ELSE ExecLoop(ExecStep(st))

\* Conn.Exec(sql, arguments...) when sendQuery returns s: the ways it can
\* run, each with the connection it leaves (c), what it returns (err, rfq)
\* and what the backend did (a).
ExecRuns(s, sql) ==
  LET run(r, a) == [c |-> r.c, err |-> r.err, rfq |-> r.rfq, a |-> a,
                    blocked |-> r.blocked]
      loop(a)   == ExecLoop(LoopStart([Cn EXCEPT !.wire = Deliver(@, a.msgs)]))
  IN  IF s.err # NoErr
        THEN {[c |-> AfterFailedSend(Cn, s.err), err |-> s.err, rfq |-> FALSE,
               a |-> [stmts |-> srvStmts, notif |-> srvNotif, msgs |-> <<>>],
               blocked |-> FALSE]}
        ELSE {x \in {run(loop(a), a) : a \in AnswersTo(s.path, sql)} : ~x.blocked}

ExecDo(s, sql, op) ==
  \E x \in ExecRuns(s, sql) :
    /\ Commit(x.c)
    /\ ret' = [Ret(op) EXCEPT !.sql = sql, !.path = s.path, !.wrote = s.wrote,
                              !.err = x.err, !.rfq = x.rfq]
    /\ Backend(x.a)

Exec ==
  /\ CanSend
  /\ \E sql \in Names \cup {"q"} :
       \E s \in SendResults(preparedStatements, sql) : ExecDo(s, sql, "Exec")
  /\ UNCHANGED <<pstmt, listening, viaPool, tx, handle, connected, preparedStatements, deadline, qr>>

\* --------------------------------------------------------- transaction

IsoLevels == {"", "serializable"}

\* beginSql of Conn.transaction
BeginSql(isoLevel) ==
  IF isoLevel = "" THEN "begin" ELSE "begin isolation level " \o isoLevel

\* A deferred function that looks at the body's answer only.
DeferredIgnoresStatus(committed, status) == IF committed THEN "commit" ELSE "rollback"

\* The statement the deferred function of Conn.transaction issues.
TransactionDeferred(committed, status) ==
  IF committed /\ status = "T" THEN "commit" ELSE "rollback"

\* A helper that reports the commit it issued, failed or not.
CommittedDespiteError(stmt, err) == stmt = "commit"

\* committed as the deferred function leaves it after Exec(stmt) returned err.
Committed(stmt, err) == stmt = "commit" /\ err = NoErr

\* What the helper's own statements send: no arguments, the simple path.
TxSendResults(sql) ==
  {sendQuery(preparedStatements, sql, 0, TRUE, wok) : wok \in WriteOutcomes}

\* Conn.Transaction / Conn.TransactionIso up to the call of f: Exec(beginSql),
\* and the return when it fails.
TxBegin ==
  /\ CanSend
  /\ tx = "none"
  /\ \E iso \in IsoLevels : \E s \in TxSendResults(BeginSql(iso)) :
       \E x \in ExecRuns(s, BeginSql(iso)) :
         /\ Commit(x.c)
         /\ ret' = [Ret(IF x.err = NoErr THEN "TxBody" ELSE "Transaction")
                      EXCEPT !.sql = BeginSql(iso), !.path = s.path,
                             !.wrote = s.wrote,
                             !.err = x.err, !.rfq = x.rfq]
         /\ Backend(x.a)
  /\ tx' = IF ret'.op = "TxBody" THEN "body" ELSE "none"
  /\ UNCHANGED <<pstmt, listening, viaPool, handle, connected, preparedStatements, deadline, qr>>

\* f returns b and the deferred function of Conn.transaction runs.
TxEnd ==
  /\ handle
  /\ tx = "body"
  /\ tx' = "none"
  /\ \E b \in BOOLEAN :
       LET stmt == TransactionDeferred(b, TxStatus)
       IN  \E s \in TxSendResults(stmt) : \E x \in ExecRuns(s, stmt) :
             /\ Commit(x.c)
             /\ ret' = [Ret("Transaction")
                          EXCEPT !.sql = stmt, !.path = s.path, !.err = x.err,
                                 !.wrote = s.wrote,
                                 !.rfq = x.rfq, !.f = b,
                                 !.val = Committed(stmt, x.err)]
             /\ Backend(x.a)
  /\ UNCHANGED <<pstmt, listening, viaPool, handle, connected, preparedStatements, deadline, qr,
                 afterDeath>>

\* --------------------------------------------------------------- Close

\* A Close that gives up when the terminate message cannot be written.
CloseStopsAtWriteError(c, wok) ==
  IF wok THEN [c |-> die([c EXCEPT !.log.term = TRUE], ClosedErr), err |-> NoErr]
         ELSE [c |-> [c EXCEPT !.log.term = TRUE], err |-> WriteErr]

\* Conn.Close on an alive connection; wok: the write of terminate succeeds.
CloseAlive(c, wok) ==
  [c |-> die([c EXCEPT !.log.term = TRUE], ClosedErr),
   err |-> IF wok THEN NoErr ELSE WriteErr]

\* Conn.Close
Close ==
  /\ CanCall
  /\ IF ~alive
       THEN /\ ret' = Ret("Close")
            /\ ConnUnchanged
       ELSE \E wok \in WriteOutcomes :
              /\ Commit(CloseAlive(Cn, wok).c)
              /\ ret' = [Ret("Close") EXCEPT !.err = CloseAlive(Cn, wok).err]
  /\ BackendIdle
  /\ UNCHANGED <<pstmt, listening, viaPool, tx, handle, connected, preparedStatements, deadline, qr>>

\* -------------------------------------------------------------- cursor

\* A close that releases the connection and keeps the pool pointer.
closeKeepsPool(q) ==
  [q EXCEPT !.closed = TRUE, !.releases = IF q.pool THEN @ + 1 ELSE @]

\* QueryResult.close
close(q) ==
  [q EXCEPT !.closed = TRUE, !.pool = FALSE,
            !.releases = IF q.pool THEN @ + 1 ELSE @]

\* One turn of QueryResult.readUntilReadyForQuery; st = [c, q, done, blocked].
DrainStep(st) ==
  LET r == rxMsg(st.c) IN
  IF r.blocked THEN [st EXCEPT !.done = TRUE, !.blocked = TRUE]
  ELSE IF r.err # NoErr THEN [st EXCEPT !.c = r.c, !.q = close(@), !.done = TRUE]
  ELSE IF r.m.t = "Z"
    THEN [st EXCEPT !.c = rxReadyForQuery(r.c, r.m), !.q = close(@), !.done = TRUE]
  ELSE IF r.m.t \in {"T", "D", "C", "2"} THEN [st EXCEPT !.c = r.c]
  ELSE LET p == processContextFreeMsg(r.c, r.m)
       IN  IF p.err # NoErr THEN [st EXCEPT !.c = p.c, !.q = close(@), !.done = TRUE]
           ELSE [st EXCEPT !.c = p.c]

RECURSIVE readUntilReadyForQuery(_)
readUntilReadyForQuery(st) == IF st.done THEN st ELSE readUntilReadyForQuery(DrainStep(st))

\* QueryResult.Close on cursor q over connection c.
QrCloseDo(c, q) ==
  IF q.closed THEN [c |-> c, q |-> q, done |-> TRUE, blocked |-> FALSE]
  ELSE LET d == readUntilReadyForQuery([c |-> c, q |-> q, done |-> FALSE, blocked |-> FALSE])
       IN  [d EXCEPT !.q = close(@)]

\* QueryResult.Fatal
Fatal(c, q, err) == QrCloseDo(c, [q EXCEPT !.err = err])

\* A NextRow that hands out every data-row, whatever its field count.
NextRowStepAnyRow(st) ==
  LET r == rxMsg(st.c)
      stop(f) == [st EXCEPT !.c = f.c, !.q = f.q, !.done = TRUE, !.blocked = f.blocked]
  IN
  IF r.blocked THEN [st EXCEPT !.done = TRUE, !.blocked = TRUE]
  ELSE IF r.err # NoErr THEN stop(Fatal(r.c, st.q, r.err))
  ELSE IF r.m.t = "Z"
    THEN [st EXCEPT !.c = rxReadyForQuery(r.c, r.m), !.q = close(@), !.done = TRUE]
  ELSE IF r.m.t = "D" THEN [st EXCEPT !.c = r.c, !.done = TRUE, !.val = TRUE]
  ELSE IF r.m.t \in {"C", "2"} THEN [st EXCEPT !.c = r.c]
  ELSE LET p == processContextFreeMsg(r.c, r.m)
       IN  IF p.err # NoErr THEN stop(Fatal(p.c, st.q, p.err))
           ELSE [st EXCEPT !.c = p.c]

\* One turn of NextRow's loop; st = [c, q, done, blocked, val].
NextRowStep(st) ==
  LET r == rxMsg(st.c)
      stop(f) == [st EXCEPT !.c = f.c, !.q = f.q, !.done = TRUE, !.blocked = f.blocked]
  IN
  IF r.blocked THEN [st EXCEPT !.done = TRUE, !.blocked = TRUE]
  ELSE IF r.err # NoErr THEN stop(Fatal(r.c, st.q, r.err))
  ELSE IF r.m.t = "Z"
    THEN [st EXCEPT !.c = rxReadyForQuery(r.c, r.m), !.q = close(@), !.done = TRUE]
  ELSE IF r.m.t = "D"
    THEN IF r.m.n # st.q.nf THEN stop(Fatal(r.c, st.q, ProtocolError))
         ELSE [st EXCEPT !.c = r.c, !.done = TRUE, !.val = TRUE]
  ELSE IF r.m.t \in {"C", "2"} THEN [st EXCEPT !.c = r.c]
  ELSE LET p == processContextFreeMsg(r.c, r.m)
       IN  IF p.err # NoErr THEN stop(Fatal(p.c, st.q, p.err))
           ELSE [st EXCEPT !.c = p.c]

RECURSIVE NextRowLoop(_)
NextRowLoop(st) == IF st.done THEN st ELSE NextRowLoop(NextRowStep(st))

\* QueryResult.NextRow
NextRowDo(c, q) ==
  IF q.closed THEN [c |-> c, q |-> q, done |-> TRUE, blocked |-> FALSE, val |-> FALSE]
  ELSE NextRowLoop([c |-> c, q |-> q, done |-> FALSE, blocked |-> FALSE, val |-> FALSE])

NextRow ==
  /\ CanCall /\ qr.active
  /\ LET r == NextRowDo(Cn, qr)
     IN  /\ ~r.blocked
         /\ Commit(r.c)
         /\ qr' = r.q
         /\ ret' = [Ret("NextRow") EXCEPT !.val = r.val, !.err = r.q.err]
  /\ BackendIdle
  /\ UNCHANGED <<pstmt, listening, viaPool, tx, handle, connected, preparedStatements, deadline>>

QrClose ==
  /\ CanCall /\ qr.active
  /\ LET r == QrCloseDo(Cn, qr)
     IN  /\ ~r.blocked
         /\ Commit(r.c)
         /\ qr' = r.q
         /\ ret' = [Ret("QrClose") EXCEPT !.err = r.q.err]
  /\ BackendIdle
  /\ UNCHANGED <<pstmt, listening, viaPool, tx, handle, connected, preparedStatements, deadline>>

\* QueryResult.Scan(dest...) called with ndest destinations, ndest different
\* from the number of fields of the cursor: the error is handed to Fatal and
\* returned.  (With the right number Scan decodes the columns of the current
\* row from the message already read.)
Scan ==
  /\ CanCall /\ qr.active
  /\ \E ndest \in 0..(qr.nf + 1) :
       /\ ndest # qr.nf
       /\ LET r == Fatal(Cn, qr, ScanCountErr)
          IN  /\ ~r.blocked
              /\ Commit(r.c)
              /\ qr' = r.q
              /\ ret' = [Ret("Scan") EXCEPT !.err = ScanCountErr]
  /\ BackendIdle
  /\ UNCHANGED <<pstmt, listening, viaPool, tx, handle, connected, preparedStatements, deadline>>

\* --------------------------------------------------------------- Query

\* One turn of Query's loop on the simple path; st = [c, nf, done, blocked, err].
QueryStep(st) ==
  LET r == rxMsg(st.c) IN
  IF r.blocked THEN [st EXCEPT !.done = TRUE, !.blocked = TRUE]
  ELSE IF r.err # NoErr THEN [st EXCEPT !.c = r.c, !.done = TRUE, !.err = r.err]
  ELSE IF r.m.t = "T" THEN [st EXCEPT !.c = r.c, !.nf = r.m.n, !.done = TRUE]
  ELSE LET p == processContextFreeMsg(r.c, r.m)
       IN  IF p.err # NoErr THEN [st EXCEPT !.c = p.c, !.done = TRUE, !.err = p.err]
           ELSE [st EXCEPT !.c = p.c]

RECURSIVE QueryLoop(_)
QueryLoop(st) == IF st.done THEN st ELSE QueryLoop(QueryStep(st))

\* ConnPool.Query: the pool is attached to the cursor Conn.Query returned
\* when it returned no error.
AttachPool(q) ==
  IF viaPool /\ q.err = NoErr THEN [q EXCEPT !.pool = TRUE, !.attached = TRUE] ELSE q

\* The cursor Query leaves in c.qr: closed exactly when it returns an error.
QueryCursor(nf, err) ==
  AttachPool([NewCursor EXCEPT !.nf = nf, !.err = err, !.closed = (err # NoErr)])

\* Conn.Query(sql, args...)
Query ==
  /\ CanSend
  /\ \E sql \in Names \cup {"q"} :
     \E s \in SendResults(preparedStatements, sql) :
       LET prepared == sql \in DOMAIN preparedStatements
           nf0 == IF prepared THEN preparedStatements[sql].nf ELSE 0
           base == [Ret("Query") EXCEPT !.sql = sql, !.path = s.path,
                                        !.wrote = s.wrote]
       IN  IF s.err # NoErr
                THEN /\ Commit(AfterFailedSend(Cn, s.err))
                     /\ qr' = QueryCursor(nf0, s.err)
                     /\ ret' = [base EXCEPT !.err = s.err]
                     /\ BackendIdle
                ELSE \E a \in AnswersTo(s.path, sql) :
                       LET c1 == [Cn EXCEPT !.wire = Deliver(@, a.msgs)]
                           r == IF prepared
                                  THEN [c |-> c1, nf |-> nf0, done |-> TRUE,
                                        blocked |-> FALSE, err |-> NoErr]
                                  ELSE QueryLoop([c |-> c1, nf |-> 0, done |-> FALSE,
                                                  blocked |-> FALSE, err |-> NoErr])
                       IN  /\ ~r.blocked
                           /\ Commit(r.c)
                           /\ qr' = QueryCursor(r.nf, r.err)
                           /\ ret' = [base EXCEPT !.err = r.err]
                           /\ Backend(a)
  /\ UNCHANGED <<pstmt, listening, viaPool, tx, handle, connected, preparedStatements, deadline>>


\* ------------------------------------------------------------- Prepare

\* One turn of Prepare's loop; st = LoopStart plus the statement ps.
PrepareStep(st) ==
  LET r == rxMsg(st.c) IN
  IF r.blocked THEN [st EXCEPT !.done = TRUE, !.blocked = TRUE]
  ELSE IF r.err # NoErr THEN [st EXCEPT !.c = r.c, !.done = TRUE, !.err = r.err]
  ELSE IF r.m.t \in {"1", "n"} THEN [st EXCEPT !.c = r.c]
  ELSE IF r.m.t = "t" THEN [st EXCEPT !.c = r.c, !.ps.np = r.m.n]
  ELSE IF r.m.t = "T" THEN [st EXCEPT !.c = r.c, !.ps.nf = r.m.n]
  ELSE IF r.m.t = "Z"
    THEN [st EXCEPT !.c = rxReadyForQuery(r.c, r.m), !.done = TRUE,
                    !.err = st.softErr, !.rfq = TRUE]
  ELSE LET p == processContextFreeMsg(r.c, r.m)
       IN  [st EXCEPT !.c = p.c,
                      !.softErr = IF p.err # NoErr /\ @ = NoErr THEN p.err ELSE @]

RECURSIVE PrepareLoop(_)
PrepareLoop(st) == IF st.done THEN st ELSE PrepareLoop(PrepareStep(st))

\* c.preparedStatements[name] = ps
Store(stmts, name, ps) ==
  [n \in DOMAIN stmts \cup {name} |-> IF n = name THEN ps ELSE stmts[n]]

\* delete(c.preparedStatements, name)
Delete(stmts, name) == [n \in DOMAIN stmts \ {name} |-> stmts[n]]

\* The map when Prepare's loop has ended with outcome r: the statement is
\* stored on ready-for-query, whatever the soft error.
PrepareStore(stmts, name, r) == IF r.rfq THEN Store(stmts, name, r.ps) ELSE stmts

\* Conn.Prepare(name, sql)
Prepare ==
  /\ CanSend
  /\ \E name \in Names, wok \in WriteOutcomes :
       LET base == [Ret("Prepare") EXCEPT !.sql = name] IN
       IF ~wok
         THEN /\ Commit(AfterFailedSend(Cn, WriteErr))
              /\ ret' = [base EXCEPT !.err = WriteErr]
              /\ UNCHANGED preparedStatements
              /\ BackendIdle
         ELSE \E a \in AnswersToParse(name) :
                LET r == PrepareLoop([ps |-> [np |-> 0, nf |-> 0]]
                                     @@ LoopStart([Cn EXCEPT !.wire = Deliver(@, a.msgs)]))
                IN  /\ ~r.blocked
                    /\ Commit(r.c)
                    /\ preparedStatements' = PrepareStore(preparedStatements, name, r)
                    /\ ret' = [base EXCEPT !.err = r.err, !.rfq = r.rfq]
                    /\ Backend(a)
  /\ UNCHANGED <<pstmt, listening, viaPool, tx, handle, connected, deadline, qr>>

\* A Deallocate that leaves the map alone.
DeallocateKeepsMap(stmts, name) == stmts

\* The map Deallocate leaves, before its Exec and whatever that returns.
DeallocateMap(stmts, name) == Delete(stmts, name)

\* Conn.Deallocate(name)
Deallocate ==
  /\ CanSend
  /\ \E name \in Names, wok \in WriteOutcomes :
       /\ preparedStatements' = DeallocateMap(preparedStatements, name)
       /\ ExecDo(sendQuery(DeallocateMap(preparedStatements, name), DeallocateSql(name),
                           0, TRUE, wok),
                 DeallocateSql(name), "Deallocate")
  /\ UNCHANGED <<pstmt, listening, viaPool, tx, handle, connected, deadline, qr>>

\* ------------------------------------------------- WaitForNotification

\* A SetReadDeadline(zeroTime) that leaves the deadline as it is.
DeadlineStaysArmed(d) == d

\* c.conn.SetReadDeadline(zeroTime) on an open transport.
ClearDeadline(d) == FALSE

\* One turn of the wait loop; st = [c, budget, done, err, n, deadline].
\* budget: how many more messages arrive before the deadline passes.
WaitStep(st) ==
  IF ~st.c.connOpen                         \* SetReadDeadline(stopTime) fails
    THEN [st EXCEPT !.done = TRUE, !.err = IoErr("closed")]
  ELSE
  LET armed   == [st EXCEPT !.deadline = TRUE]            \* SetReadDeadline(stopTime)
      cleared == [armed EXCEPT !.deadline = ClearDeadline(@)]
  IN
  IF st.c.wire = <<>> \/ st.budget = 0      \* Peek: the deadline passes
    THEN [cleared EXCEPT !.done = TRUE, !.err = NotificationTimeoutError]
  ELSE IF Head(st.c.wire) = IOERR           \* Peek: another error
    THEN [cleared EXCEPT !.done = TRUE, !.err = IoErr("peek")]
  ELSE LET r == rxMsg([cleared.c EXCEPT !.log.armed = @ \/ cleared.deadline]) IN
       IF r.err # NoErr
         THEN [cleared EXCEPT !.c = r.c, !.done = TRUE, !.err = r.err]
       ELSE LET p == processContextFreeMsg(r.c, r.m) IN
            IF p.err # NoErr
              THEN [cleared EXCEPT !.c = p.c, !.done = TRUE, !.err = p.err]
            ELSE IF Len(p.c.notifications) > 0
              THEN [cleared EXCEPT !.c = [p.c EXCEPT !.notifications = Tail(@)],
                                   !.n = Head(p.c.notifications), !.done = TRUE]
            ELSE [cleared EXCEPT !.c = p.c, !.budget = @ - 1]

RECURSIVE WaitLoop(_)
WaitLoop(st) == IF st.done THEN st ELSE WaitLoop(WaitStep(st))

\* Conn.WaitForNotification(timeout)
WaitForNotification ==
  /\ CanCall
  /\ IF Len(notifications) > 0
       THEN /\ notifications' = Tail(notifications)
            /\ ret' = [Ret("WaitForNotification") EXCEPT !.n = Head(notifications)]
            /\ rx' = NoReads
            /\ UNCHANGED <<alive, everAlive, causeOfDeath, connOpen, TxStatus, wire,
                           deadline>>
       ELSE \E budget \in 0..Len(wire) :
              LET r == WaitLoop([c |-> Cn, budget |-> budget, done |-> FALSE,
                                 err |-> NoErr, n |-> 0, deadline |-> deadline])
              IN  /\ Commit(r.c)
                  /\ deadline' = r.deadline
                  /\ ret' = [Ret("WaitForNotification") EXCEPT !.err = r.err, !.n = r.n]
  /\ BackendIdle
  /\ UNCHANGED <<pstmt, listening, viaPool, tx, handle, connected, preparedStatements, qr>>

\* The backend emits a notification on its own.
ServerNotify ==
  /\ handle /\ connOpen
  /\ srvNotif < NotifCap
  /\ Unread(wire) <= MaxStale
  /\ wire' = Deliver(wire, <<notificationResponse(srvNotif + 1)>>)
  /\ srvNotif' = srvNotif + 1
  /\ ret' = Ret("ServerNotify")
  /\ rx' = NoReads
  /\ UNCHANGED <<pstmt, listening, viaPool, tx, handle, connected, alive, everAlive, causeOfDeath, connOpen, TxStatus,
                 preparedStatements, notifications, deadline, qr, srvStmts, srvTx,
                 afterDeath>>

\* ------------------------------------------------------------- Connect

\* What the backend may send after the startup message.
StartupSeqs ==
  {<<authenticationX(0), backendKeyData, readyForQuery("I")>>,
   <<authenticationX(0), parameterStatus, backendKeyData, readyForQuery("I")>>,
   <<authenticationX(3), authenticationX(0), backendKeyData, readyForQuery("I")>>,
   <<authenticationX(5), authenticationX(0), backendKeyData, readyForQuery("I")>>,
   <<authenticationX(7)>>,
   <<errorResponse("FATAL", 9), IOERR>>,
   <<errorResponse("ERROR", 1)>>,
   <<otherTag>>,
   <<IOERR>>,
   <<authenticationX(0), IOERR>>}

\* Conn.rxAuthenticationX: the error it returns.
rxAuthenticationX(m, pwOk) ==
  IF m.n = 0 THEN NoErr
  ELSE IF m.n \in {3, 5} THEN (IF pwOk THEN NoErr ELSE IoErr("write"))
  ELSE AuthErr

\* One turn of Connect's loop; st = [c, done, blocked, err, nilc, pwOk].
\* nilc: the statement that ends the loop is `return nil, err`.
ConnectStep(st) ==
  LET r == rxMsg(st.c)
      fail(c, e) == [st EXCEPT !.c = c, !.done = TRUE, !.err = e, !.nilc = TRUE]
  IN
  IF r.blocked THEN [st EXCEPT !.done = TRUE, !.blocked = TRUE]
  ELSE IF r.err # NoErr THEN fail(r.c, r.err)
  ELSE IF r.m.t = "K" THEN [st EXCEPT !.c = r.c]
  ELSE IF r.m.t = "R"
    THEN IF rxAuthenticationX(r.m, st.pwOk) # NoErr
           THEN fail(r.c, rxAuthenticationX(r.m, st.pwOk))
           ELSE [st EXCEPT !.c = r.c]
  ELSE IF r.m.t = "Z"
    THEN [st EXCEPT !.c = rxReadyForQuery(r.c, r.m), !.done = TRUE]
  ELSE LET p == processContextFreeMsg(r.c, r.m)
       IN  IF p.err # NoErr THEN fail(p.c, p.err) ELSE [st EXCEPT !.c = p.c]

RECURSIVE ConnectLoop(_)
ConnectLoop(st) == IF st.done THEN st ELSE ConnectLoop(ConnectStep(st))

\* Connect's deferred function, for the c and err Connect returns.
ConnectDeferred(c, nilc, err) ==
  IF ~nilc /\ err # NoErr
    THEN [c EXCEPT !.alive = FALSE, !.connOpen = FALSE, !.wire = <<>>]
    ELSE c

\* Connect(config).  tls: no TLS configured, or how the TLS request ends.
Connect ==
  /\ ~connected
  /\ connected' = TRUE
  /\ \E dialOk \in BOOLEAN, tls \in {"off", "ok", "refused", "ioerr"},
        startOk \in BOOLEAN, pwOk \in BOOLEAN, seq \in StartupSeqs :
       IF ~dialOk
         THEN /\ handle' = FALSE
              /\ ret' = [Ret("Connect") EXCEPT !.err = IoErr("dial")]
              /\ ConnUnchanged
              /\ UNCHANGED srvTx
         ELSE LET c0 == [Cn EXCEPT !.alive = TRUE, !.connOpen = TRUE]
                  early == IF tls = "refused" THEN TlsErr
                           ELSE IF tls = "ioerr" THEN IoErr("tls")
                           ELSE IF ~startOk THEN IoErr("write")
                           ELSE NoErr
                  r == IF early # NoErr
                         THEN [c |-> c0, done |-> TRUE, blocked |-> FALSE, err |-> early,
                               nilc |-> FALSE, pwOk |-> pwOk]
                         ELSE ConnectLoop([c |-> [c0 EXCEPT !.wire = seq], done |-> FALSE,
                                           blocked |-> FALSE, err |-> NoErr,
                                           nilc |-> FALSE, pwOk |-> pwOk])
              IN  /\ ~r.blocked
                  /\ CommitConn(ConnectDeferred(r.c, r.nilc, r.err))
                  /\ everAlive' = TRUE
                  /\ handle' = ~r.nilc
                  /\ srvTx' = IF early = NoErr THEN LastStatus(seq, srvTx) ELSE srvTx
                  /\ ret' = [Ret("Connect") EXCEPT !.err = r.err]
  /\ UNCHANGED <<pstmt, listening, viaPool, tx, preparedStatements, deadline, qr, srvStmts, srvNotif,
                 afterDeath>>

\* --------------------------------------------------------- format codes

\* The type OIDs conn.go names, and one it does not.
BinaryOids == {"BoolOid", "ByteaOid", "Int2Oid", "Int4Oid", "Int8Oid", "Float4Oid",
               "Float8Oid"}
TextOids   == {"TextOid", "VarcharOid", "DateOid", "TimestampTzOid"}
OtherOid   == "OtherOid"
Oids       == BinaryOids \cup TextOids \cup {OtherOid}

BinaryFormatCode == "binary"
TextFormatCode   == "text"

\* What an argument is to the default branch of sendPreparedQuery.
ArgKinds == {"BinaryEncoder", "TextEncoder", "plain"}

\* Sequences over S of length at most n.
SeqsUpTo(S, n) == UNION {[1..k -> S] : k \in 0..n}

NoStmt == [described |-> FALSE, bound |-> FALSE, ParameterOids |-> <<>>,
           FieldDescriptions |-> <<>>, paramCodes |-> <<>>, resultCodes |-> <<>>]

\* Conn.rxRowDescription: the format code is the one the message carries; a
\* description of a statement carries text for every column.
rxRowDescription(oids) ==
  [i \in 1..Len(oids) |-> [DataType |-> oids[i], FormatCode |-> TextFormatCode]]

\* The format code Prepare records for a result column.
PrepareFieldFormat(fd) ==
  IF fd.DataType \in BinaryOids \cup {"DateOid", "TimestampTzOid"}
    THEN BinaryFormatCode
    ELSE fd.FormatCode

\* The format code sendPreparedQuery writes in Bind for a parameter.
BindParamFormat(oid, arg) ==
  IF oid \in BinaryOids THEN BinaryFormatCode
  ELSE IF oid \in TextOids THEN TextFormatCode
  ELSE IF arg = "BinaryEncoder" THEN BinaryFormatCode
  ELSE TextFormatCode

\* Conn.Prepare on parameter-description and row-description.
DescribeStmt ==
  /\ \E poids \in SeqsUpTo(Oids, MaxCols), foids \in SeqsUpTo(Oids, MaxCols) :
       pstmt' = [NoStmt EXCEPT
                  !.described = TRUE,
                  !.ParameterOids = poids,
                  !.FieldDescriptions =
                     [i \in 1..Len(foids) |->
                        [rxRowDescription(foids)[i] EXCEPT
                           !.FormatCode = PrepareFieldFormat(rxRowDescription(foids)[i])]]]
  /\ UNCHANGED <<handle, connected, alive, everAlive, causeOfDeath, connOpen, TxStatus,
                 preparedStatements, notifications, deadline, qr, viaPool, tx,
                 listening, wire, srvStmts, srvTx, srvNotif, afterDeath, rx, ret>>

\* Conn.sendPreparedQuery: the format codes of the Bind message.
BindStmt ==
  /\ pstmt.described
  /\ \E args \in [1..Len(pstmt.ParameterOids) -> ArgKinds] :
       pstmt' = [pstmt EXCEPT
                  !.bound = TRUE,
                  !.paramCodes = [i \in 1..Len(pstmt.ParameterOids) |->
                                   BindParamFormat(pstmt.ParameterOids[i], args[i])],
                  !.resultCodes = [i \in 1..Len(pstmt.FieldDescriptions) |->
                                    pstmt.FieldDescriptions[i].FormatCode]]
  /\ UNCHANGED <<handle, connected, alive, everAlive, causeOfDeath, connOpen, TxStatus,
                 preparedStatements, notifications, deadline, qr, viaPool, tx,
                 listening, wire, srvStmts, srvTx, srvNotif, afterDeath, rx, ret>>

\* ------------------------------------------------------- specification

InitConn ==
  /\ handle = FALSE
  /\ connected = FALSE
  /\ alive = FALSE
  /\ everAlive = FALSE
  /\ causeOfDeath = NoErr
  /\ connOpen = FALSE
  /\ TxStatus = ""
  /\ preparedStatements = <<>>
  /\ notifications = <<>>
  /\ deadline = FALSE
  /\ qr = NoCursor
  /\ tx = "none"
  /\ pstmt = NoStmt
  /\ wire = <<>>
  /\ srvStmts = {}
  /\ srvTx = ""
  /\ srvNotif = 0
  /\ afterDeath = 0
  /\ rx = NoReads
  /\ ret = [op |-> "new", sql |-> "", err |-> NoErr, val |-> FALSE, rfq |-> FALSE,
            path |-> "", preAlive |-> FALSE, n |-> 0, f |-> FALSE,
            wrote |-> FALSE]

\* The connection is used directly.
Init == InitConn /\ viaPool = FALSE /\ listening = FALSE

\* The connection is used through a pool: the cursors of Query carry it.
InitPool == InitConn /\ viaPool = TRUE /\ listening = FALSE

\* The connection is used directly and listens on a channel in use.
InitNotify == InitConn /\ viaPool = FALSE /\ listening = TRUE

Next ==
  \/ Connect
  \/ Close
  \/ Exec
  \/ Query
  \/ NextRow
  \/ QrClose
  \/ Prepare
  \/ Deallocate
  \/ WaitForNotification
  \/ ServerNotify

Spec == Init /\ [][Next]_vars

SpecPool == InitPool /\ [][Next]_vars

SpecNotify == InitNotify /\ [][Next]_vars

\* Prepare and Bind over every type OID.
NextFormat ==
  \/ DescribeStmt
  \/ BindStmt

SpecFormat == Init /\ [][NextFormat]_vars

\* The connection used with the transaction helper; the body, like the
\* caller outside it, runs statements and cursors.
\* The cursor read with Scan as well.
NextScan ==
  \/ Connect
  \/ Exec
  \/ Query
  \/ NextRow
  \/ QrClose
  \/ Scan
  \/ Prepare

SpecScan == Init /\ [][NextScan]_vars

NextTx ==
  \/ Connect
  \/ Close
  \/ Exec
  \/ Query
  \/ NextRow
  \/ QrClose
  \/ TxBegin
  \/ TxEnd

SpecTx == Init /\ [][NextTx]_vars

\* ---------------------------------------------------------------- claims

RequestOps == {"Exec", "Query", "Prepare", "Deallocate"}
CursorOps  == {"Query", "NextRow", "QrClose"}

\* C1: whenever a cursor of Conn.Query is closed and the connection is alive,
\* the ready-for-query that ends the cursor's request has been consumed: none
\* is left unread on the channel.
C1_ReadyForQueryConsumed ==
  qr.active /\ qr.closed /\ alive => ~HasTag(wire, "Z")

C3_TxStatusIsLastStatus ==
  /\ alive
  /\ \/ ret.op = "Exec" /\ ret.rfq
     \/ ret.op \in CursorOps /\ qr.active /\ qr.closed
  => TxStatus = srvTx

\* The operation observed a transport error: a failed read, or a transport
\* error returned by an operation that writes or peeks.
ObservedIoError ==
  \/ rx.io
  \/ ret.op \in RequestOps \cup {"WaitForNotification"} /\ IsIo(ret.err)

\* C4: an operation on a live connection that observes a transport error, on
\* a write as well as on a read or peek, leaves alive false and that error
\* recorded as the cause of death.
C4_IoErrorKills ==
  ret.preAlive /\ ret.op \in RequestOps \cup {"NextRow", "QrClose", "WaitForNotification"}
  /\ ObservedIoError
  => ~alive /\ causeOfDeath = (IF rx.io THEN IoErr("read") ELSE ret.err)

\* C5: an operation attempted on a connection whose alive flag is false
\* returns DeadConnError (WaitForNotification: when nothing is pending);
\* Close returns nil.
C5_DeadConnError ==
  ~ret.preAlive =>
    /\ ret.op \in RequestOps => ret.err = DeadConnError
    /\ ret.op = "WaitForNotification" /\ ret.n = 0 => ret.err = DeadConnError
    /\ ret.op = "Close" => ret.err = NoErr

\* C6: alive never goes back to true once it has been true and is false;
\* whenever alive is false after having been true the cause of death is set;
\* and a cause of death, once set, is not overwritten.
C6_DiesOnceWithCause ==
  [][/\ everAlive /\ ~alive => ~alive'
     /\ everAlive' /\ ~alive' => causeOfDeath' # NoErr
     /\ causeOfDeath # NoErr => causeOfDeath' = causeOfDeath]_vars

\* C7: between operations on a live connection, a name is a key of
\* preparedStatements exactly when the backend holds a statement of that name.
C7_MapMatchesServer ==
  handle /\ alive =>
    \A n \in Names : n \in DOMAIN preparedStatements <=> n \in srvStmts

\* C8: when Deallocate(name) returns, name is not a key of preparedStatements,
\* whatever its statement's outcome; only Prepare(name) puts the name back;
\* and an Exec or Query whose sql is a name not in the map takes the
\* simple-query path.
C8_DeallocateForgets ==
  [][/\ ret'.op = "Deallocate" =>
          DeallocatedName(ret'.sql) \notin DOMAIN preparedStatements'
     /\ \A n \in Names :
          n \notin DOMAIN preparedStatements /\ n \in DOMAIN preparedStatements'
            => ret'.op = "Prepare" /\ ret'.sql = n
     /\ ret'.op \in {"Exec", "Query"} /\ ret'.sql \notin DOMAIN preparedStatements
          => ret'.path = "simple"]_vars

\* The backend still holds the statement (Prepare succeeded, the deallocate
\* statement did not), yet an Exec or Query with the name went the simple way.
C8_Witness ==
  /\ ret.op \in {"Exec", "Query"} /\ ret.sql \in Names
  /\ ret.sql \in srvStmts /\ alive
  /\ ret.path = "simple" /\ ret.sql \notin DOMAIN preparedStatements

\* Messages NextRow passes over: command-complete, bind-complete and the
\* context-free messages that are handled without error.
Skipped(m) == m.t \in {"C", "2", "S", "N", "A"}

\* The first message of w that is not passed over is a data-row of nf fields.
NextIsMatchingRow(w, nf) ==
  \E i \in 1..Len(w) : w[i] = dataRow(nf) /\ \A j \in 1..(i - 1) : Skipped(w[j])

\* C9: NextRow returns true exactly when the cursor is not closed and the
\* next message, after those it passes over, is a data-row whose field count
\* is the cursor's; otherwise it returns false and the cursor is closed.
C9_NextRowTrueIffMatchingRow ==
  [][ret'.op = "NextRow" =>
       /\ ret'.val <=> (~qr.closed /\ NextIsMatchingRow(wire, qr.nf))
       /\ ~ret'.val => qr'.closed]_vars

\* NextRow has returned true on a data-row of the cursor's field count and
\* left the end of the response unread.
C9_Witness ==
  /\ ret.op = "NextRow" /\ ret.val /\ ~qr.closed
  /\ wire = <<commandComplete, readyForQuery("I")>>

\* C10: the first Close of an open cursor reads up to and including
\* ready-for-query and marks the cursor closed; a Close of a closed cursor
\* reads nothing and changes nothing.
C10_CloseIdempotent ==
  [][ret'.op = "QrClose" =>
       IF qr.closed
         THEN /\ ~rx'.any
              /\ UNCHANGED <<qr, alive, causeOfDeath, connOpen, TxStatus,
                             notifications, preparedStatements, wire>>
         ELSE qr'.closed /\ (alive' => rx'.z)]_vars

\* C11: a cursor with a pool attached has called the pool's Release not at
\* all while it is open and exactly once from the moment it is closed,
\* whatever is called on it afterwards; a cursor without a pool never does.
C11_ReleasedExactlyOnce ==
  IF qr.attached
    THEN IF qr.closed THEN qr.releases = 1 /\ ~qr.pool
                      ELSE qr.releases = 0 /\ qr.pool
    ELSE qr.releases = 0 /\ ~qr.pool

\* Close has been called on a pooled cursor that had already terminated and
\* released its connection.
C11_Witness ==
  /\ ret.op = "QrClose" /\ ret.preAlive /\ ~rx.any
  /\ qr.attached /\ qr.closed /\ qr.releases = 1

BeginSqls == {BeginSql(iso) : iso \in IsoLevels}

\* C12: the transaction helper first executes begin and, when begin fails,
\* returns without running the body and without a commit or rollback;
\* otherwise the body runs and on its return the helper issues exactly one
\* statement: commit when the body returned true and TxStatus is 'T' at that
\* moment, rollback in every other case.
C12_CommitOrRollback ==
  [][/\ tx = "none" /\ ret'.op = "Transaction" =>
          ret'.sql \in BeginSqls /\ ret'.err # NoErr /\ tx' = "none"
     /\ tx = "none" /\ tx' = "body" =>
          ret'.op = "TxBody" /\ ret'.sql \in BeginSqls /\ ret'.err = NoErr
     /\ tx = "body" /\ tx' = "none" =>
          /\ ret'.op = "Transaction"
          /\ ret'.sql = IF ret'.f /\ TxStatus = "T" THEN "commit" ELSE "rollback"
     /\ ret'.sql \in {"commit", "rollback"} => tx = "body" /\ tx' = "none"]_vars

\* The body returned true while TxStatus was not 'T', and the helper issued
\* rollback.
C12_Witness ==
  ret.op = "Transaction" /\ ret.f /\ ret.sql = "rollback" /\ ret.preAlive

\* C13: the helper returns committed = true only after a commit whose Exec
\* returned no error; a commit that fails gives committed = false with that
\* error; a rollback the server accepts gives committed = false and no error.
C13_CommittedOnlyAfterCommit ==
  ret.op = "Transaction" =>
    /\ ret.val => ret.sql = "commit" /\ ret.err = NoErr
    /\ ret.sql = "commit" /\ ret.err # NoErr => ~ret.val
    /\ ret.sql = "commit" /\ rx.e # NoErr /\ rx.first = rx.e /\ ret.rfq =>
         ret.err = rx.e /\ ~ret.val
    /\ ret.sql = "rollback" => ~ret.val
    /\ ret.sql = "rollback" /\ ret.rfq /\ rx.first = NoErr => ret.err = NoErr

\* The server has rejected the commit: the helper returned that error and
\* committed = false.
C13_Witness ==
  /\ ret.op = "Transaction" /\ ret.sql = "commit" /\ ret.rfq
  /\ rx.e # NoErr /\ ret.err = rx.e /\ ~ret.val

\* C14: no read deadline is armed when an operation has returned, rxMsg is
\* never entered with one armed, and WaitForNotification returns
\* NotificationTimeoutError only on a connection it leaves alive with its
\* transport open.
C14_DeadlineOnlyAtPeek ==
  /\ ~deadline
  /\ ~rx.armed
  /\ ret.op = "WaitForNotification" /\ ret.err = NotificationTimeoutError =>
       alive /\ connOpen /\ ret.n = 0 /\ ~rx.io

\* WaitForNotification has read a message that is no notification and then
\* met the deadline at the next peek.
C14_Witness ==
  /\ ret.op = "WaitForNotification" /\ ret.err = NotificationTimeoutError
  /\ rx.any /\ alive

\* The notifications the caller has not been given yet, oldest first: those
\* in the pending queue q, then those still in flight in w.
Pending(q, w) ==
  LET a == SelectSeq(w, LAMBDA m : m.t = "A")
  IN  q \o [i \in 1..Len(a) |-> a[i].n]

IsPrefix(p, q) == Len(p) <= Len(q) /\ \A i \in 1..Len(p) : p[i] = q[i]

Increasing(q) == \A i \in 1..(Len(q) - 1) : q[i] < q[i + 1]

\* C15: WaitForNotification hands out the oldest notification not yet given
\* to the caller, from the pending queue without a read when the queue is
\* not empty, and removes just that one; no other step takes a notification
\* out of the queue or out of the stream of an alive connection, every
\* notification-response a receive loop reads is appended to the queue, and
\* the notifications wait in the order the backend emitted them.
C15_NotificationsInOrderOnce ==
  [][/\ Increasing(Pending(notifications', wire'))
     /\ IF ret'.op = "WaitForNotification" /\ ret'.n # 0
          THEN /\ Pending(notifications, wire) # <<>>
               /\ ret'.n = Head(Pending(notifications, wire))
               /\ notifications # <<>> => ~rx'.any /\ wire' = wire
               /\ alive' => Pending(notifications', wire') =
                               Tail(Pending(notifications, wire))
          ELSE /\ IsPrefix(notifications, notifications')
               /\ alive' => IsPrefix(Pending(notifications, wire),
                                      Pending(notifications', wire'))
               /\ Len(Pending(notifications', wire')) - Len(Pending(notifications, wire))
                    <= srvNotif' - srvNotif]_vars

\* Two notifications waited in the queue and WaitForNotification has handed
\* out the older one without a read.
C15_Witness ==
  /\ ret.op = "WaitForNotification" /\ ret.n = 1 /\ ~rx.any
  /\ notifications = <<2>> /\ alive

\* C16: a WaitForNotification that has read messages from an alive
\* connection, and met no transport failure, returns with a notification
\* or with NotificationTimeoutError: a message that is no notification is
\* handled and the wait goes on.
C16_WaitContinues ==
  ret.op = "WaitForNotification" /\ ret.preAlive /\ rx.any /\ alive /\ ~IsIo(ret.err) =>
    ret.n # 0 \/ ret.err = NotificationTimeoutError

\* C17: after an operation on an alive connection in which the context-free
\* handler met a tag it does not know, or in which NextRow met a data-row
\* whose field count is not the cursor's, the connection is not alive.
C17_ProtocolErrorKills ==
  /\ ret.preAlive /\ rx.first = UnknownMsgErr("") => ~alive
  /\ ret.preAlive /\ ret.op = "NextRow" /\ ret.err = ProtocolError => ~alive

\* C18: an error-response of severity FATAL that the context-free handler
\* returned leaves the connection dead with that error as the cause; one of
\* another severity is returned as well and does not kill: when an operation
\* that read one ends with the connection dead, a read failed or a FATAL
\* error-response followed; no other backend error is ever a cause of death.
C18_FatalSeverityKills ==
  /\ rx.first.k = "PgError" /\ rx.first.s = "FATAL" =>
       ~alive /\ causeOfDeath = rx.first
  /\ causeOfDeath.k = "PgError" => causeOfDeath.s = "FATAL"
  /\ rx.e # NoErr =>
       /\ rx.e.k = "PgError" /\ rx.e.s # "FATAL"
       /\ rx.first \in {rx.e, UnknownMsgErr("")}
       /\ ret.preAlive /\ ~alive => rx.io \/ causeOfDeath.k = "PgError"

\* Exec has read an error-response of severity FATAL on a connection that
\* was alive: the connection is dead and that error is the cause.
C18_Witness ==
  /\ ret.op = "Exec" /\ ret.preAlive /\ rx.first = PgError("FATAL", 9)
  /\ ~alive /\ causeOfDeath = rx.first

\* C19: a Query on the simple path whose response held no row-description
\* and no error-response (the loop read a message, met no failure, left the
\* connection alive, and nothing but ready-for-query is left unread)
\* returns no error and a cursor whose Err() is nil.
C19_NonSelectDrainsSilently ==
  /\ ret.op = "Query" /\ ret.path = "simple" /\ ret.preAlive /\ alive
  /\ rx.any /\ ~rx.io /\ rx.e = NoErr
  /\ \A i \in 1..Len(wire) : wire[i].t = "Z"
  => ret.err = NoErr /\ qr.err = NoErr

\* C20: Conn.Close on an alive connection writes terminate, closes the
\* transport and leaves alive = false with cause "Closed", whether or not
\* the write succeeds; on a dead connection it writes nothing, leaves
\* alive, the cause of death and the transport as they are, and returns nil.
C20_CloseKillsOnce ==
  [][ret'.op = "Close" =>
       IF alive
         THEN rx'.term /\ ~alive' /\ ~connOpen' /\ causeOfDeath' = ClosedErr
         ELSE /\ ~rx'.term /\ ret'.err = NoErr
              /\ UNCHANGED <<alive, causeOfDeath, connOpen, wire>>]_vars

\* Close has failed to write terminate on an alive connection.
C20_Witness ==
  /\ ret.op = "Close" /\ ret.preAlive /\ ret.err = IoErr("write")
  /\ ~alive /\ causeOfDeath = ClosedErr

\* The format code the table gives for a type OID it lists.
TableCode(oid) == IF oid \in BinaryOids THEN BinaryFormatCode ELSE TextFormatCode

\* C21: in a Bind message the format code of every parameter and of every
\* result column whose type the table lists is the table's: binary for bool,
\* bytea, int2, int4, int8, float4, float8 and text for text, varchar, date
\* and timestamp-with-timezone; the code Prepare recorded for the column is
\* the same.
C21_FormatCodesFollowTable ==
  pstmt.bound =>
    /\ \A i \in 1..Len(pstmt.ParameterOids) :
         pstmt.ParameterOids[i] # OtherOid =>
           pstmt.paramCodes[i] = TableCode(pstmt.ParameterOids[i])
    /\ \A i \in 1..Len(pstmt.FieldDescriptions) :
         pstmt.FieldDescriptions[i].DataType # OtherOid =>
           /\ pstmt.resultCodes[i] = TableCode(pstmt.FieldDescriptions[i].DataType)
           /\ pstmt.FieldDescriptions[i].FormatCode =
                TableCode(pstmt.FieldDescriptions[i].DataType)


\* C22: a usage or serialization error is local.  A Query or Exec on a
\* prepared statement that fails on the argument count or on an argument
\* without encoder has not reached the write of its request, leaves the
\* channel and the backend as they were, leaves the connection alive and, for
\* Query, the returned cursor closed.  A Scan with the wrong number of
\* destinations on an open cursor leaves that error as the cursor's error and
\* the cursor closed, and when the connection is still alive afterwards and
\* its transport has not failed, the drain has consumed ready-for-query and
\* nothing of the request is unread.
C22_UsageErrorsAreLocal ==
  [][ /\ (ret'.op \in {"Query", "Exec"} /\ ret'.path = "prepared"
            /\ ret'.err = UsageErr /\ alive)
         => /\ ~ret'.wrote
            /\ wire' = wire /\ srvStmts' = srvStmts /\ srvTx' = srvTx
            /\ alive'
            /\ (ret'.op = "Query" => qr'.active /\ qr'.closed)
      /\ (ret'.op = "Scan" /\ alive /\ ~qr.closed)
         => /\ qr'.err = ScanCountErr /\ qr'.closed
            /\ (alive' /\ ~IsBroken(wire') => rx'.z /\ Unread(wire') = 0)
    ]_vars

\* C23: a cursor that has become closed stays closed.  Every handle Query
\* returns points to the one QueryResult of its connection, qr; once that
\* cursor is closed no later operation on the same connection opens it again,
\* so NextRow and Close on the handle return at once.
C23_ClosedStaysClosed ==
  [][ (qr.active /\ qr.closed /\ ret'.op # "Connect")
        => (qr'.active /\ qr'.closed) ]_vars

\* C24: whenever Connect returns an error after the transport was opened
\* (every error but a failed dial), the transport has been closed and the
\* caller has been given no connection that is alive.
C24_FailedConnectClosesTransport ==
  (ret.op = "Connect" /\ ret.err # NoErr /\ ret.err # IoErr("dial"))
    => ~connOpen /\ ~(handle /\ alive)

====
